---- MODULE Spec2Model ----
(***************************************************************************)
(* Insomnia: the main-process launch sequence (main.development.ts: the    *)
(* 'ready' handler, _launchApp, _trackStats and the app event handlers)    *)
(* and the renderer's notification toast (ui/components/toast.tsx).        *)
(*                                                                         *)
(* Spec      the main process: one process lifetime at a time, restarted   *)
(*           up to MaxStarts times over the same persisted LaunchStats.    *)
(* SpecToast the Toast component as the file wires it: 'show-notification' *)
(*           events, the two buttons, the 1 s timers, renderer reloads.    *)
(* SpecFetch SpecToast plus checkForNotifications called from any render,  *)
(*           to exercise the function whatever its caller is.              *)
(* SpecFault SpecFetch plus a stored item that no longer parses.           *)
(* SpecToastFair  SpecToast in which an armed 1 s timer does expire.       *)
(***************************************************************************)
EXTENDS Naturals, Sequences, FiniteSets, TLC

\* ---------------------------------------------------------------- bounds
MaxStarts == 2          \* process starts over one installation
MaxActivate == 1        \* windows created by 'activate' per process
MaxTimers == 2          \* 1 s timers armed and not yet expired
MaxReloads == 1         \* renderer restarts
MaxChecks == 1          \* checkForNotifications calls made by SpecFetch
MaxFaults == 1          \* times the stored item becomes unreadable

\* ---------------------------------------------------------------- values
Null == "null"                          \* JS null / undefined
AppVersions == {"1.0.0", "1.1.0", ""}   \* what getAppVersion() may return
Argvs == {<<"insomnia", "insomnia://app/import">>}
ArgLists == {<<"a", "b", "https://x/y">>, <<"insomnia">>}
Urls == {"insomnia://app/auth"}
NotificationKeys == {"updated-1.1.0", "promo", "constructor"}

VARIABLES
  \* the installation
  isMac,          \* isMac()
  stats,          \* the persisted Stats record (models.stats)
  now,            \* Date.now(), a clock that ticks at each process start
  starts,         \* process starts so far
  tracked,        \* launch record steps so far (instrumentation)
  \* the running process
  pc,             \* position in the 'ready' handler
  PLAYWRIGHT,     \* process.env.PLAYWRIGHT is set
  appVersion,     \* getAppVersion()
  argv,           \* process.argv
  exitCode,       \* the status the process exited with
  dialogShown,    \* electron.dialog.showErrorBox was called
  oldStats,       \* _trackStats: const oldStats
  procStats,      \* _trackStats: const stats (the update's result)
  listeners,      \* ipcMain 'window-ready' one-time listeners, in order
  handlers,       \* app events with a handler registered by _launchApp
  launchLog,      \* the calls _launchApp made, in order
  gotTheLock,     \* _launchApp: const gotTheLock
  quitRequested,  \* app.quit() was called
  windows,        \* BrowserWindows created, by id: open/minimized/destroyed
  window,         \* _launchApp: let window (0: undefined)
  activations,    \* windows created by the 'activate' handler
  readySent,      \* windows whose renderer has sent 'window-ready'
  updateTimer,    \* the armed 5 s timers, each with the notification it sends
  argvSent,       \* 'shell:open' sends of process.argv.slice(1)
  updateSent,     \* expiries of the 5 s timer
  \* the renderer (toast.tsx)
  notification,   \* useState: the held notification's key, or Null
  visible,        \* useState: the toast has faded in
  localStorage,   \* the item INSOMNIA_NOTIFICATIONS_SEEN (<<>>: no item)
  timers,         \* the armed 1 s timers, in the order they expire
  allowNotificationRequests,  \* the user setting
  checks,         \* checkForNotifications calls in flight: where each awaits
  called,         \* checkForNotifications calls made from outside a timer
  requests,       \* POSTs to /notification issued
  acceptCount,    \* times each key was accepted (instrumentation)
  reloads,        \* renderer restarts so far
  faults,         \* times the stored item became unreadable so far
  event,          \* the last step: its handler and the argument it got
  effects         \* the calls the last handler made, in order

installVars == <<isMac, stats, now, starts, tracked>>
envVars == <<PLAYWRIGHT, appVersion, argv>>
procVars == <<pc, exitCode, dialogShown, oldStats, procStats, listeners,
              handlers, launchLog, gotTheLock, quitRequested, windows, window,
              activations, readySent, updateTimer, argvSent, updateSent>>
mainVars == <<installVars, envVars, procVars>>
toastVars == <<notification, visible, localStorage, timers,
               allowNotificationRequests, checks, called, requests,
               acceptCount, reloads, faults>>
vars == <<mainVars, toastVars, event, effects>>

\* ------------------------------------------------------------- helpers
Alive == pc \notin {"off", "exited"}
Count(s, x) == Cardinality({i \in DOMAIN s : s[i] = x})
Index(s, x) == IF \E i \in DOMAIN s : s[i] = x
               THEN CHOOSE i \in DOMAIN s : s[i] = x /\ \A j \in 1..(i-1) : s[j] # x
               ELSE 0
Truthy(s) == s # Null /\ s # ""
Destroyed(w) == w \in DOMAIN windows /\ windows[w] = "destroyed"

\* one call made by a handler
Call(op, w) == [op |-> op, win |-> w, chan |-> Null, kind |-> Null, payload |-> Null]
Send(w, chan, kind, payload) ==
  [op |-> "send", win |-> w, chan |-> chan, kind |-> kind, payload |-> payload]
Throw == Call("throw", 0)
Event(name, arg) == [name |-> name, arg |-> arg]

\* ------------------------------------------------------- _trackStats
\* a faulty variant: lastVersion taken from the running version, not the previous record
recordLaunch_lastVersionFromApp(previous, version, t) ==
  [currentLaunch  |-> t,
   lastLaunch     |-> previous.currentLaunch,
   currentVersion |-> version,
   lastVersion    |-> version,
   launches       |-> previous.launches + 1]

\* a faulty variant: the launch counter is written back as it was read
recordLaunch_sameLaunches(previous, version, t) ==
  [currentLaunch  |-> t,
   lastLaunch     |-> previous.currentLaunch,
   currentVersion |-> version,
   lastVersion    |-> previous.currentVersion,
   launches       |-> previous.launches]

\* main.development.ts 208-214: the patch handed to models.stats.update
recordLaunch(previous, version, t) ==
  [currentLaunch  |-> t,
   lastLaunch     |-> previous.currentLaunch,
   currentVersion |-> version,
   lastVersion    |-> previous.currentVersion,
   launches       |-> previous.launches + 1]

\* a faulty variant: the first-launch test is dropped
justUpdated_anyLaunch(s) ==
  s.currentVersion # s.lastVersion /\ Truthy(s.currentVersion)

\* main.development.ts 221-225: the window-ready listener goes on
justUpdated(s) ==
  LET firstLaunch == s.launches = 1
  IN  /\ ~firstLaunch /\ s.currentVersion # s.lastVersion
      /\ Truthy(s.currentVersion)

\* main.development.ts 228-233
updateNotification(s) ==
  [key     |-> "updated-" \o s.currentVersion,
   url     |-> "changelogUrl",
   cta     |-> "See What's New",
   message |-> "Updated to " \o s.currentVersion]

\* ------------------------------------------------------- _launchApp
\* a faulty variant: the window is created before the lock is asked for
launchCalls_windowFirst(playwright, got) ==
  <<"once:window-ready:update", "once:window-ready:argv", "createWindow">> \o
  IF ~playwright
  THEN <<"requestSingleInstanceLock">> \o
       (IF ~got THEN <<"quit">> ELSE <<"on:second-instance", "on:open-url">>)
  ELSE <<>>

\* a faulty variant: the PLAYWRIGHT test is dropped
launchCalls_lockInTests(playwright, got) ==
  <<"once:window-ready:update", "once:window-ready:argv",
    "requestSingleInstanceLock">> \o
  (IF ~got THEN <<"quit">>
   ELSE <<"on:second-instance", "createWindow", "on:open-url">>)

\* main.development.ts 218 and 149-183: the calls of the continuation of
\* `await models.stats.update` and of _launchApp after `await _trackStats()`
launchCalls(playwright, got) ==
  <<"once:window-ready:update", "once:window-ready:argv">> \o
  IF ~playwright
  THEN <<"requestSingleInstanceLock">> \o
       (IF ~got THEN <<"quit">>
        ELSE <<"on:second-instance", "createWindow", "on:open-url">>)
  ELSE <<"createWindow">>

\* a faulty variant: ipcMain.on, the listener stays
afterEmit_on(ls) == ls

\* main.development.ts 149, 218: ipcMain.once, the one-time listeners are
\* removed when the event is emitted
afterEmit(ls) == <<>>

\* main.development.ts 170: args.slice(-1).join()
lastArg(args) == IF Len(args) = 0 THEN "" ELSE args[Len(args)]

\* main.development.ts 151, 172, 178: `window`, the variable _launchApp declared
deliveryTarget == window

\* the active window: the one createWindow returned last
activeWindow == Len(windows)

hasVisibleWindows == \E w \in DOMAIN windows : windows[w] = "open"

\* ---------------------------------------------------------------- Init
NoStats == [currentLaunch |-> 0, lastLaunch |-> 0, currentVersion |-> Null,
            lastVersion |-> Null, launches |-> 0]

ProcInit ==
  /\ exitCode = Null /\ dialogShown = FALSE
  /\ oldStats = NoStats /\ procStats = NoStats
  /\ listeners = <<>> /\ handlers = {} /\ launchLog = <<>>
  /\ gotTheLock = FALSE /\ quitRequested = FALSE
  /\ windows = <<>> /\ window = 0 /\ activations = 0 /\ readySent = {}
  /\ updateTimer = <<>> /\ argvSent = 0 /\ updateSent = 0

MainInit ==
  /\ stats = NoStats /\ now = 0 /\ starts = 0 /\ tracked = 0
  /\ pc = "off" /\ PLAYWRIGHT = FALSE /\ appVersion = "" /\ argv = <<>>
  /\ ProcInit
  /\ event = Event("none", <<>>) /\ effects = <<>>

\* toast.tsx 57-58 and an installation that has shown no notification yet
ToastInit ==
  /\ notification = Null /\ visible = FALSE
  /\ localStorage = <<>> /\ timers = <<>>
  /\ checks = <<>> /\ called = 0 /\ requests = 0
  /\ acceptCount = [k \in NotificationKeys |-> 0] /\ reloads = 0
  /\ faults = 0

Init ==
  /\ isMac \in BOOLEAN /\ MainInit
  /\ allowNotificationRequests = TRUE /\ ToastInit

\* ------------------------------------------------------------- actions
\* the operating system starts the process
StartProcess(pw, v, av) ==
  /\ UNCHANGED toastVars
  /\ pc \in {"off", "exited"} /\ starts < MaxStarts
  /\ starts' = starts + 1 /\ now' = now + 1
  /\ pc' = "init" /\ PLAYWRIGHT' = pw /\ appVersion' = v /\ argv' = av
  /\ exitCode' = Null /\ dialogShown' = FALSE
  /\ oldStats' = NoStats /\ procStats' = NoStats
  /\ listeners' = <<>> /\ handlers' = {} /\ launchLog' = <<>>
  /\ gotTheLock' = FALSE /\ quitRequested' = FALSE
  /\ windows' = <<>> /\ window' = 0 /\ activations' = 0 /\ readySent' = {}
  /\ updateTimer' = <<>> /\ argvSent' = 0 /\ updateSent' = 0
  /\ event' = Event("start", <<>>) /\ effects' = <<>>
  /\ UNCHANGED <<isMac, stats, tracked>>

\* app.on('ready'), 61-88: up to `await database.init`
AppReady(error) ==
  /\ UNCHANGED toastVars
  /\ pc = "init" /\ event' = Event("ready", <<>>)
  /\ IF error
     THEN /\ dialogShown' = TRUE /\ exitCode' = 1 /\ pc' = "exited"
          /\ effects' = <<Call("showErrorBox", 0), Call("exit", 0)>>
     ELSE /\ pc' = "dbInit" /\ effects' = <<>>
          /\ UNCHANGED <<dialogShown, exitCode>>
  /\ UNCHANGED <<installVars, envVars, oldStats, procStats, listeners, handlers,
                 launchLog, gotTheLock, quitRequested, windows, window,
                 activations, readySent, updateTimer, argvSent, updateSent>>

\* app.on('ready'), 90-94: database.init, _createModelInstances, windowUtils.init
DatabaseInit ==
  /\ UNCHANGED toastVars
  /\ pc = "dbInit" /\ pc' = "statsGet"
  /\ event' = Event("database.init", <<>>) /\ effects' = <<>>
  /\ UNCHANGED <<installVars, envVars, exitCode, dialogShown, oldStats, procStats,
                 listeners, handlers, launchLog, gotTheLock, quitRequested,
                 windows, window, activations, readySent, updateTimer, argvSent,
                 updateSent>>

\* _trackStats, 207: const oldStats = await models.stats.get()
_trackStats_get ==
  /\ UNCHANGED toastVars
  /\ pc = "statsGet" /\ pc' = "statsUpdate"
  /\ oldStats' = stats
  /\ event' = Event("stats.get", <<>>) /\ effects' = <<>>
  /\ UNCHANGED <<installVars, envVars, exitCode, dialogShown, procStats,
                 listeners, handlers, launchLog, gotTheLock, quitRequested,
                 windows, window, activations, readySent, updateTimer, argvSent,
                 updateSent>>

\* _trackStats, 208-214: models.stats.update writes the record
_trackStats_update ==
  /\ UNCHANGED toastVars
  /\ pc = "statsUpdate" /\ pc' = "launch"
  /\ stats' = recordLaunch(oldStats, appVersion, now)
  /\ procStats' = stats' /\ tracked' = tracked + 1
  /\ event' = Event("stats.update", <<>>)
  /\ effects' = <<Call("stats.update", 0)>>
  /\ UNCHANGED <<isMac, now, starts, envVars, exitCode, dialogShown, oldStats,
                 listeners, handlers, launchLog, gotTheLock, quitRequested,
                 windows, window, activations, readySent, updateTimer, argvSent,
                 updateSent>>

\* _trackStats 216-242 and _launchApp 147-192, run to completion once the
\* update has resolved; `got` is what app.requestSingleInstanceLock() returns
_launchApp(got) ==
  /\ UNCHANGED toastVars
  /\ pc = "launch" /\ pc' = "running"
  /\ event' = Event("_launchApp", <<>>)
  /\ LET calls == launchCalls(PLAYWRIGHT, got)
         made  == Count(calls, "createWindow")
     IN  /\ launchLog' = calls
         /\ listeners' = listeners
              \o (IF Count(calls, "once:window-ready:update") > 0 THEN <<"update">> ELSE <<>>)
              \o (IF Count(calls, "once:window-ready:argv") > 0 THEN <<"argv">> ELSE <<>>)
         /\ handlers' = handlers
              \cup (IF Count(calls, "on:second-instance") > 0 THEN {"second-instance"} ELSE {})
              \cup (IF Count(calls, "on:open-url") > 0 THEN {"open-url"} ELSE {})
         /\ gotTheLock' = (Count(calls, "requestSingleInstanceLock") > 0 /\ got)
         /\ quitRequested' = (quitRequested \/ Count(calls, "quit") > 0)
         /\ windows' = windows \o [i \in 1..made |-> "open"]
         /\ window' = IF made > 0 THEN Len(windows) + made ELSE 0
         /\ effects' = [i \in DOMAIN calls |-> Call(calls[i], 0)]
  /\ UNCHANGED <<installVars, envVars, exitCode, dialogShown, oldStats, procStats,
                 activations, readySent, updateTimer, argvSent, updateSent>>

\* app.on('activate'), 131-143
Activate ==
  /\ UNCHANGED toastVars
  /\ Alive /\ isMac /\ ~hasVisibleWindows /\ activations < MaxActivate
  /\ event' = Event("activate", <<>>)
  /\ IF pc = "init"
     THEN \* 'ready' has not fired: createWindow throws, the handler logs it
          /\ effects' = <<Call("createWindow", 0), Throw>>
          /\ UNCHANGED <<windows, activations>>
     ELSE /\ windows' = Append(windows, "open")
          /\ activations' = activations + 1
          /\ effects' = <<Call("createWindow", Len(windows) + 1)>>
  /\ UNCHANGED <<installVars, envVars, pc, exitCode, dialogShown, oldStats,
                 procStats, listeners, handlers, launchLog, gotTheLock,
                 quitRequested, window, readySent, updateTimer, argvSent,
                 updateSent>>

\* what the two one-time 'window-ready' listeners do (218-241, 149-152)
updateListener ==
  IF "update" \in {listeners[i] : i \in DOMAIN listeners} /\ justUpdated(procStats)
  THEN <<Call("setTimeout:5000", 0)>> ELSE <<>>
argvListener ==
  IF "argv" \notin {listeners[i] : i \in DOMAIN listeners} THEN <<>>
  ELSE IF deliveryTarget = 0 \/ Destroyed(deliveryTarget) THEN <<Throw>>
  ELSE <<Send(deliveryTarget, "shell:open", "array", Tail(argv))>>

\* the renderer of window w sends 'window-ready'
WindowReady(w) ==
  /\ UNCHANGED toastVars
  /\ Alive /\ w \in DOMAIN windows /\ ~Destroyed(w) /\ w \notin readySent
  /\ readySent' = readySent \cup {w}
  /\ event' = Event("window-ready", <<w>>)
  /\ LET calls == updateListener \o argvListener
     IN  /\ effects' = calls
         /\ updateTimer' = IF updateListener # <<>>
                           THEN Append(updateTimer, updateNotification(procStats))
                           ELSE updateTimer
         /\ argvSent' = argvSent + Cardinality({i \in DOMAIN calls : calls[i].op = "send"})
  /\ listeners' = afterEmit(listeners)
  /\ UNCHANGED <<installVars, envVars, pc, exitCode, dialogShown, oldStats,
                 procStats, handlers, launchLog, gotTheLock, quitRequested,
                 windows, window, activations, updateSent>>

\* app.on('second-instance'), 162-173
SecondInstance(args) ==
  /\ UNCHANGED toastVars
  /\ Alive /\ "second-instance" \in handlers
  /\ event' = Event("second-instance", args)
  /\ IF Destroyed(deliveryTarget)
     THEN /\ effects' = <<Throw>> /\ UNCHANGED windows
     ELSE /\ effects' =
               (IF windows[deliveryTarget] = "minimized"
                THEN <<Call("restore", deliveryTarget)>> ELSE <<>>)
               \o <<Call("focus", deliveryTarget),
                    Send(deliveryTarget, "shell:open", "string", lastArg(args))>>
          /\ windows' = [windows EXCEPT ![deliveryTarget] = "open"]
  /\ UNCHANGED <<installVars, envVars, pc, exitCode, dialogShown, oldStats,
                 procStats, listeners, handlers, launchLog, gotTheLock,
                 quitRequested, window, activations, readySent, updateTimer,
                 argvSent, updateSent>>

\* app.on('open-url'), 176-179
OpenUrl(url) ==
  /\ UNCHANGED toastVars
  /\ Alive /\ isMac /\ "open-url" \in handlers
  /\ event' = Event("open-url", <<url>>)
  /\ effects' = IF Destroyed(deliveryTarget) THEN <<Throw>>
                ELSE <<Send(deliveryTarget, "shell:open", "string", url)>>
  /\ UNCHANGED <<installVars, envVars, procVars>>

\* a faulty variant: only the window of the launch sequence is notified
getAllWindows_launchWindow ==
  {w \in DOMAIN windows : ~Destroyed(w) /\ w = window}

\* main.development.ts 236: BrowserWindow.getAllWindows(), the windows that
\* are open or minimized
getAllWindows == {w \in DOMAIN windows : ~Destroyed(w)}

\* the 5 s timer of the update notification expires, 235-240
UpdateTimer ==
  /\ UNCHANGED toastVars
  /\ Alive /\ updateTimer # <<>>
  /\ event' = Event("timeout:5000", <<>>)
  /\ LET live == getAllWindows
         nth(i) == CHOOSE w \in live : Cardinality({x \in live : x < w}) = i - 1
     IN  effects' = [i \in 1..Cardinality(live) |->
                       Send(nth(i), "show-notification", "notification", Head(updateTimer))]
  /\ updateTimer' = Tail(updateTimer) /\ updateSent' = updateSent + 1
  /\ UNCHANGED <<installVars, envVars, pc, exitCode, dialogShown, oldStats,
                 procStats, listeners, handlers, launchLog, gotTheLock,
                 quitRequested, windows, window, activations, readySent,
                 argvSent>>

\* the user closes window w; app.on('window-all-closed'), 125-129
CloseWindow(w) ==
  /\ UNCHANGED toastVars
  /\ Alive /\ w \in DOMAIN windows /\ ~Destroyed(w)
  /\ windows' = [windows EXCEPT ![w] = "destroyed"]
  /\ event' = Event("close", <<w>>)
  /\ LET allClosed == \A x \in DOMAIN windows : x = w \/ Destroyed(x)
     IN  IF allClosed /\ ~isMac
         THEN quitRequested' = TRUE /\ effects' = <<Call("quit", 0)>>
         ELSE UNCHANGED quitRequested /\ effects' = <<>>
  /\ UNCHANGED <<installVars, envVars, pc, exitCode, dialogShown, oldStats,
                 procStats, listeners, handlers, launchLog, gotTheLock, window,
                 activations, readySent, updateTimer, argvSent, updateSent>>

\* the user minimizes window w (what window.isMinimized() reads, 165)
MinimizeWindow(w) ==
  /\ UNCHANGED toastVars
  /\ Alive /\ w \in DOMAIN windows /\ windows[w] = "open"
  /\ windows' = [windows EXCEPT ![w] = "minimized"]
  /\ event' = Event("minimize", <<w>>) /\ effects' = <<>>
  /\ UNCHANGED <<installVars, envVars, pc, exitCode, dialogShown, oldStats,
                 procStats, listeners, handlers, launchLog, gotTheLock,
                 quitRequested, window, activations, readySent, updateTimer,
                 argvSent, updateSent>>

\* app.quit() (159, 127) takes effect: the windows close, the process ends
ProcessExit ==
  /\ UNCHANGED toastVars
  /\ Alive /\ quitRequested
  /\ pc' = "exited" /\ exitCode' = 0
  /\ windows' = [w \in DOMAIN windows |-> "destroyed"]
  /\ updateTimer' = <<>>
  /\ event' = Event("quit", <<>>) /\ effects' = <<>>
  /\ UNCHANGED <<installVars, envVars, dialogShown, oldStats, procStats,
                 listeners, handlers, launchLog, gotTheLock, quitRequested,
                 window, activations, readySent, argvSent, updateSent>>

Next ==
  \/ \E pw \in BOOLEAN, v \in AppVersions, av \in Argvs : StartProcess(pw, v, av)
  \/ \E error \in BOOLEAN : AppReady(error)
  \/ DatabaseInit
  \/ _trackStats_get
  \/ _trackStats_update
  \/ \E got \in BOOLEAN : _launchApp(got)
  \/ Activate
  \/ \E w \in 1..(MaxActivate + 1) : WindowReady(w)
  \/ \E args \in ArgLists : SecondInstance(args)
  \/ \E url \in Urls : OpenUrl(url)
  \/ UpdateTimer
  \/ \E w \in 1..(MaxActivate + 1) : CloseWindow(w)
  \/ \E w \in 1..(MaxActivate + 1) : MinimizeWindow(w)
  \/ ProcessExit

Spec == Init /\ [][Next]_vars

\* =================================================== the renderer: toast.tsx
\* A JS object is the sequence of its own properties <<key, value>>, in
\* insertion order; the stored item is the sequence of the JSON text's tokens.

\* properties every object inherits from Object.prototype (all truthy)
ObjectPrototypeKeys == {"constructor", "toString", "valueOf", "hasOwnProperty"}

HasOwn(obj, k) == \E i \in DOMAIN obj : obj[i][1] = k

\* toast.tsx 71: seenNotifications[notification.key], read for its truthiness
get(obj, k) ==
  IF HasOwn(obj, k)
  THEN LET i == CHOOSE i \in DOMAIN obj : obj[i][1] = k IN obj[i][2]
  ELSE k \in ObjectPrototypeKeys

\* an assignment obj[k] = v
put(obj, k, v) ==
  IF HasOwn(obj, k)
  THEN [i \in DOMAIN obj |-> IF obj[i][1] = k THEN <<k, v>> ELSE obj[i]]
  ELSE Append(obj, <<k, v>>)

\* a faulty variant: the key is not recorded
markSeen_forgotten(obj, k) == obj

\* toast.tsx 75: seenNotifications[notification.key] = true
markSeen(obj, k) == put(obj, k, TRUE)

\* toast.tsx 76: JSON.stringify(seenNotifications, null, 2)
RECURSIVE members(_, _)
members(obj, i) ==
  IF i > Len(obj) THEN <<>>
  ELSE (IF i > 1 THEN <<",">> ELSE <<>>)
       \o <<obj[i][1], ":", IF obj[i][2] THEN "true" ELSE "false">>
       \o members(obj, i + 1)
JSON_stringify(obj) == <<"{">> \o members(obj, 1) \o <<"}">>

\* toast.tsx 67: JSON.parse(storedKeys); ok = FALSE is a SyntaxError thrown
RECURSIVE parseMembers(_, _, _)
parseMembers(t, i, acc) ==
  IF i + 3 > Len(t) THEN [ok |-> FALSE, value |-> <<>>]
  ELSE IF t[i + 1] # ":" \/ t[i + 2] \notin {"true", "false"}
       THEN [ok |-> FALSE, value |-> <<>>]
  ELSE LET acc2 == put(acc, t[i], t[i + 2] = "true")
       IN  IF t[i + 3] = "}"
           THEN [ok |-> i + 3 = Len(t), value |-> IF i + 3 = Len(t) THEN acc2 ELSE <<>>]
           ELSE IF t[i + 3] = "," THEN parseMembers(t, i + 4, acc2)
           ELSE [ok |-> FALSE, value |-> <<>>]
JSON_parse(t) ==
  IF Len(t) < 2 \/ t[1] # "{" THEN [ok |-> FALSE, value |-> <<>>]
  ELSE IF Len(t) = 2 THEN [ok |-> t[2] = "}", value |-> <<>>]
  ELSE parseMembers(t, 2, <<>>)

\* toast.tsx 63-69: the seen notifications read back from local storage
readSeen(storedKeys) ==
  IF storedKeys = <<>> THEN <<>>
  ELSE LET r == JSON_parse(storedKeys) IN IF r.ok THEN r.value ELSE <<>>

\* a 1 s timer: for a dismiss timer `closure` is the `notification` of the
\* render that armed it, for a fade-in timer the notification it was armed for
Timer(kind, closure) == [kind |-> kind, closure |-> closure]

\* a faulty variant: the notification is displayed before it is recorded
acceptCalls_displayFirst ==
  <<Call("setNotification", 0), Call("setVisible:false", 0),
    Call("setItem", 0), Call("setTimeout:1000", 0)>>

\* toast.tsx 76-82: the calls that accept a notification, in order
acceptCalls ==
  <<Call("setItem", 0), Call("setNotification", 0),
    Call("setVisible:false", 0), Call("setTimeout:1000", 0)>>

\* toast.tsx 59-83
handleNotification(n) ==
  IF n = Null
  THEN /\ effects' = <<>>
       /\ UNCHANGED <<notification, visible, localStorage, timers, acceptCount>>
  ELSE LET seenNotifications == readSeen(localStorage)
       IN  IF get(seenNotifications, n)
           THEN /\ effects' = <<Call("return:seen", 0)>>
                /\ UNCHANGED <<notification, visible, localStorage, timers,
                               acceptCount>>
           ELSE /\ localStorage' = JSON_stringify(markSeen(seenNotifications, n))
                /\ notification' = n
                /\ visible' = FALSE
                /\ timers' = Append(timers, Timer("fadeIn", n))
                /\ acceptCount' = [acceptCount EXCEPT ![n] = @ + 1]
                /\ effects' = acceptCalls

\* toast.tsx 84-89: a call of checkForNotifications from a render whose
\* `notification` is `closure`; the result is the calls then in flight
checkForNotifications(closure) ==
  IF closure # Null THEN checks ELSE Append(checks, "stats")

\* a faulty variant: the test is inverted
skipRequest_inverted(allow) == allow

\* toast.tsx 97-100: the early return on the user setting
skipRequest(allow) == ~allow

Remove(seq, i) == [j \in 1..(Len(seq) - 1) |-> IF j < i THEN seq[j] ELSE seq[j + 1]]

\* toast.tsx 126-128: 'show-notification' arrives from the main process
ShowNotification(k) ==
  /\ UNCHANGED mainVars
  /\ Len(timers) < MaxTimers
  /\ event' = Event("show-notification", <<k>>)
  /\ handleNotification(k)
  /\ UNCHANGED <<allowNotificationRequests, checks, called, requests, reloads, faults>>

\* what both buttons' onClick do, toast.tsx 149-159 and 167-177
onClick ==
  /\ notification # Null /\ Len(timers) < MaxTimers
  /\ visible' = FALSE
  /\ timers' = Append(timers, Timer("dismiss", notification))
  /\ effects' = <<Call("setVisible:false", 0), Call("setTimeout:1000", 0)>>
  /\ UNCHANGED <<notification, localStorage, allowNotificationRequests, checks,
                 called, requests, acceptCount, reloads, faults>>

\* toast.tsx 147-162: the Dismiss button
DismissClick ==
  /\ UNCHANGED mainVars
  /\ event' = Event("click:dismiss", <<>>)
  /\ onClick

\* toast.tsx 164-181: the call-to-action link
CtaClick ==
  /\ UNCHANGED mainVars
  /\ event' = Event("click:cta", <<>>)
  /\ onClick

\* toast.tsx 80-82: the fade-in timer expires
FadeInTimer ==
  /\ UNCHANGED mainVars
  /\ timers # <<>> /\ Head(timers).kind = "fadeIn"
  /\ event' = Event("timeout:fadeIn", <<>>)
  /\ visible' = TRUE /\ timers' = Tail(timers)
  /\ effects' = <<Call("setVisible:true", 0)>>
  /\ UNCHANGED <<notification, localStorage, allowNotificationRequests, checks,
                 called, requests, acceptCount, reloads, faults>>

\* toast.tsx 154-157 and 172-175: the dismiss timer expires
DismissTimer ==
  /\ UNCHANGED mainVars
  /\ timers # <<>> /\ Head(timers).kind = "dismiss"
  /\ event' = Event("timeout:dismiss", <<>>)
  /\ notification' = Null /\ timers' = Tail(timers)
  /\ checks' = checkForNotifications(Head(timers).closure)
  /\ effects' = <<Call("setNotification:null", 0), Call("checkForNotifications", 0)>>
  /\ UNCHANGED <<visible, localStorage, allowNotificationRequests, called,
                 requests, acceptCount, reloads, faults>>

\* the renderer restarts: the component state (57-58) is new, the item stays
Reload ==
  /\ UNCHANGED mainVars
  /\ reloads < MaxReloads /\ reloads' = reloads + 1
  /\ event' = Event("reload", <<>>) /\ effects' = <<>>
  /\ notification' = Null /\ visible' = FALSE
  /\ timers' = <<>> /\ checks' = <<>>
  /\ UNCHANGED <<localStorage, allowNotificationRequests, called, requests,
                 acceptCount, faults>>

NextToast ==
  \/ \E k \in NotificationKeys : ShowNotification(k)
  \/ DismissClick
  \/ CtaClick
  \/ FadeInTimer
  \/ DismissTimer
  \/ Reload

InitToast ==
  /\ isMac = FALSE /\ MainInit
  /\ allowNotificationRequests = TRUE /\ ToastInit

SpecToast == InitToast /\ [][NextToast]_vars

\* ------------------------------------------- checkForNotifications, driven
FetchResults ==
  {[kind |-> x, key |-> Null] : x \in {"error", "empty", "string"}}
  \cup {[kind |-> "notification", key |-> k] : k \in NotificationKeys}

\* toast.tsx 84-89: checkForNotifications is called from the current render
CallCheck ==
  /\ UNCHANGED mainVars
  /\ called < MaxChecks /\ called' = called + 1
  /\ event' = Event("checkForNotifications", <<>>)
  /\ checks' = checkForNotifications(notification)
  /\ effects' = <<>>
  /\ UNCHANGED <<notification, visible, localStorage, timers,
                 allowNotificationRequests, requests, acceptCount, reloads, faults>>

\* toast.tsx 89: await models.stats.get() resolves
StatsResolved(i) ==
  /\ UNCHANGED mainVars
  /\ i \in DOMAIN checks /\ checks[i] = "stats"
  /\ event' = Event("stats.get", <<i>>) /\ effects' = <<>>
  /\ checks' = [checks EXCEPT ![i] = "settings"]
  /\ UNCHANGED <<notification, visible, localStorage, timers,
                 allowNotificationRequests, called, requests, acceptCount,
                 reloads, faults>>

\* toast.tsx 90-116: await models.settings.getOrCreate() resolves
SettingsResolved(i) ==
  /\ UNCHANGED mainVars
  /\ i \in DOMAIN checks /\ checks[i] = "settings"
  /\ event' = Event("settings.getOrCreate", <<i>>)
  /\ IF skipRequest(allowNotificationRequests)
     THEN /\ checks' = Remove(checks, i) /\ effects' = <<Call("return", 0)>>
          /\ UNCHANGED requests
     ELSE /\ checks' = [checks EXCEPT ![i] = "fetch"]
          /\ requests' = requests + 1
          /\ effects' = <<Call("post:/notification", 0)>>
  /\ UNCHANGED <<notification, visible, localStorage, timers,
                 allowNotificationRequests, called, acceptCount, reloads, faults>>

\* a faulty variant: the typeof test is dropped, a string body is shown
updatedNotification_anyBody(r) ==
  IF r.kind \in {"error", "empty"} THEN Null
  ELSE IF r.kind = "string" THEN "promo" ELSE r.key

\* toast.tsx 101, 116-122: what the try block leaves in updatedNotification
updatedNotification(r) == IF r.kind = "notification" THEN r.key ELSE Null

\* toast.tsx 116-123: the POST resolves or rejects
FetchResolved(i, r) ==
  /\ UNCHANGED mainVars
  /\ i \in DOMAIN checks /\ checks[i] = "fetch" /\ Len(timers) < MaxTimers
  /\ event' = Event("fetch", <<i, r.kind>>)
  /\ checks' = Remove(checks, i)
  /\ handleNotification(updatedNotification(r))
  /\ UNCHANGED <<allowNotificationRequests, called, requests, reloads, faults>>

\* the user changes the setting allowNotificationRequests (read at 91)
ChangeSetting ==
  /\ UNCHANGED mainVars
  /\ allowNotificationRequests' = ~allowNotificationRequests
  /\ event' = Event("settings", <<>>) /\ effects' = <<>>
  /\ UNCHANGED <<notification, visible, localStorage, timers, checks, called,
                 requests, acceptCount, reloads, faults>>

NextFetch ==
  \/ NextToast
  \/ CallCheck
  \/ \E i \in 1..MaxChecks : StatsResolved(i)
  \/ \E i \in 1..MaxChecks : SettingsResolved(i)
  \/ \E i \in 1..MaxChecks, r \in FetchResults : FetchResolved(i, r)
  \/ ChangeSetting

SpecFetch == InitToast /\ [][NextFetch]_vars

\* ==================================================================== claims
Sends == {i \in DOMAIN effects : effects[i].op = "send"}
Registered == {listeners[i] : i \in DOMAIN listeners}

\* C1 (SpecFetch, which holds every behaviour of SpecToast): a notification key
\* is accepted by handleNotification at most once over the installation,
\* whether it arrives on 'show-notification' or as a fetch result and however
\* often the renderer restarts and reads the stored item back; a held
\* notification is one that was accepted exactly once.
C1_AcceptedKeyIsNeverAcceptedAgain ==
  /\ \A k \in NotificationKeys : acceptCount[k] <= 1
  /\ notification # Null => acceptCount[notification] = 1

\* C1 witness: after a restart, 'show-notification' with an accepted key was
\* rejected and nothing is held.
C1_Witness ==
  /\ reloads >= 1 /\ event.name = "show-notification"
  /\ acceptCount[event.arg[1]] = 1
  /\ effects = <<Call("return:seen", 0)>> /\ notification = Null

\* C2 (SpecToast): a 'show-notification' that arrives while a notification is
\* held changes nothing: the held notification stays and no timer is armed.
C2_ReceiveWhileHeldIsNoOp ==
  [][(event'.name = "show-notification" /\ notification # Null)
       => (notification' = notification /\ timers' = timers)]_vars

\* C3 (Spec): outside test mode _launchApp asks for the single-instance lock
\* exactly once and before it creates a window; without the lock it calls
\* app.quit(), creates no window and registers no handler; with the lock it
\* creates exactly one window and the second-instance handler is registered
\* from then on. Before _launchApp has run it has created and registered nothing.
C3_LockGatesTheLaunch ==
  LET lock == Index(launchLog, "requestSingleInstanceLock")
      made == Count(launchLog, "createWindow")
  IN  /\ launchLog = <<>> =>
           (window = 0 /\ handlers = {} /\ Len(windows) = activations)
      /\ (launchLog # <<>> /\ ~PLAYWRIGHT) =>
           /\ Count(launchLog, "requestSingleInstanceLock") = 1
           /\ \A i \in DOMAIN launchLog : launchLog[i] = "createWindow" => lock < i
           /\ Len(windows) = activations + made
           /\ ~gotTheLock =>
                (quitRequested /\ made = 0 /\ window = 0 /\ handlers = {})
           /\ gotTheLock =>
                (made = 1 /\ window \in DOMAIN windows
                 /\ "second-instance" \in handlers)

\* C3 witness: the lock was refused while a window made by 'activate' exists;
\* the launch sequence added none.
C3_Witness ==
  /\ ~PLAYWRIGHT /\ launchLog # <<>> /\ ~gotTheLock /\ pc = "running"
  /\ activations = 1 /\ Len(windows) = 1 /\ window = 0

\* C4 (Spec): process.argv.slice(1) is sent at most once per process, only by
\* the 'window-ready' listener and so never before a window-ready signal, on
\* 'shell:open'; a later window-ready sends nothing more.
C4_ArgvSentOnceAfterWindowReady ==
  /\ argvSent <= 1
  /\ argvSent = 1 => readySent # {}
  /\ \A i \in Sends : effects[i].kind = "array" =>
       /\ event.name = "window-ready" /\ argvSent = 1
       /\ effects[i].chan = "shell:open" /\ effects[i].payload = Tail(argv)

\* C4 witness: a second window-ready arrived after the argv was sent and sent
\* nothing.
C4_Witness ==
  /\ event.name = "window-ready" /\ Cardinality(readySent) = 2
  /\ argvSent = 1 /\ Sends = {}

\* C5 (Spec): every second-instance event sends exactly one 'shell:open' whose
\* payload is the last argument, after focusing the window, which is then not
\* minimized; every open-url event sends exactly one 'shell:open' with its URL.
C5_EachEventForwardsOneMessage ==
  /\ event.name = "second-instance" =>
       /\ Cardinality(Sends) = 1
       /\ \A i \in Sends :
            /\ effects[i].chan = "shell:open" /\ effects[i].kind = "string"
            /\ effects[i].payload = event.arg[Len(event.arg)]
            /\ \E j \in 1..(i - 1) :
                 effects[j].op = "focus" /\ effects[j].win = effects[i].win
            /\ windows[effects[i].win] = "open"
  /\ event.name = "open-url" =>
       /\ Cardinality(Sends) = 1
       /\ \A i \in Sends :
            /\ effects[i].chan = "shell:open" /\ effects[i].kind = "string"
            /\ effects[i].payload = event.arg[1]

\* C6 (Spec): every 'shell:open' is sent to the active window, the one
\* createWindow returned last, and a second-instance or open-url event that
\* arrives while that window is open or minimized is delivered to it.
C6_DeepLinksReachTheActiveWindow ==
  /\ \A i \in Sends :
       effects[i].chan = "shell:open" => effects[i].win = activeWindow
  /\ (event.name \in {"second-instance", "open-url"} /\ ~Destroyed(activeWindow))
       => \E i \in Sends : effects[i].win = activeWindow

\* C7 (SpecFetch): while allowNotificationRequests is false no step issues a
\* POST to /notification, and the call of checkForNotifications that reads the
\* setting as false ends there, leaving the held notification and the stored
\* seen keys as they were.
C7_NoRequestWhenNotPermitted ==
  [][/\ ~allowNotificationRequests => requests' = requests
     /\ (~allowNotificationRequests /\ event'.name = "settings.getOrCreate") =>
          /\ notification' = notification /\ localStorage' = localStorage
          /\ visible' = visible /\ timers' = timers
          /\ Len(checks') = Len(checks) - 1]_vars

\* C7 witness: a call read the setting as false and returned while a
\* notification from 'show-notification' is held; nothing was requested.
C7_Witness ==
  /\ event.name = "settings.getOrCreate" /\ ~allowNotificationRequests
  /\ effects = <<Call("return", 0)>> /\ notification # Null /\ requests = 0

C9_UpdateNotificationIffJustUpdated ==
  /\ [](LET s == recordLaunch([currentLaunch |-> 3, lastLaunch |-> 2,
                               currentVersion |-> "1.0.0",
                               lastVersion |-> "1.0.0", launches |-> 3],
                              "1.1.0", 4)
        IN  /\ s.launches = 4 /\ s.lastVersion = "1.0.0"
            /\ justUpdated(s) /\ updateNotification(s).key = "updated-1.1.0")
  /\ [][LET fired == "update" \in Registered /\ event'.name = "window-ready"
            armed == Len(updateTimer') > Len(updateTimer)
        IN  /\ fired => (armed <=> /\ procStats.launches > 1
                                   /\ procStats.currentVersion # procStats.lastVersion
                                   /\ procStats.currentVersion # "")
            /\ armed => /\ fired
                        /\ Len(updateTimer') = Len(updateTimer) + 1
                        /\ updateTimer'[Len(updateTimer')].key
                             = "updated-" \o procStats.currentVersion]_vars

\* C9 witness: the second launch runs 1.1.0 after 1.0.0 and the notification
\* "updated-1.1.0" is armed.
C9_Witness ==
  /\ procStats.launches = 2 /\ procStats.lastVersion = "1.0.0"
  /\ updateTimer # <<>> /\ updateTimer[1].key = "updated-1.1.0"

C11_FatalErrorsExitNonZero ==
  /\ (~PLAYWRIGHT /\ launchLog # <<>> /\ ~gotTheLock) =>
       /\ Count(launchLog, "createWindow") = 0 /\ window = 0
       /\ Len(windows) = activations
       /\ pc = "exited" => exitCode # 0
  /\ dialogShown =>
       /\ pc = "exited" /\ exitCode # 0
       /\ event.name = "ready" =>
            /\ Index(effects, Call("showErrorBox", 0)) = 1
            /\ Index(effects, Call("exit", 0)) = 2
       /\ launchLog = <<>> /\ windows = <<>> /\ listeners = <<>>
       /\ oldStats = NoStats /\ procStats = NoStats /\ stats.launches < starts

\* the persisted SeenSet: the keys the stored item records as true
SeenSet ==
  LET seen == readSeen(localStorage)
  IN  {k \in NotificationKeys : HasOwn(seen, k) /\ get(seen, k) = TRUE}

\* C12 (SpecFetch): whenever a notification is held (pending, visible or
\* dismissing) its key is recorded as true in the stored item; the handler
\* that accepts a notification writes the item strictly before it sets the
\* notification as held; and every key accepted so far stays recorded, also
\* after the renderer restarts, so it is rejected at the next launch.
C12_PersistBeforeDisplay ==
  /\ notification # Null => notification \in SeenSet
  /\ \A i \in DOMAIN effects : effects[i].op = "setNotification" =>
       \E j \in 1..(i - 1) : effects[j].op = "setItem"
  /\ \A k \in NotificationKeys : acceptCount[k] > 0 => k \in SeenSet

\* C12 witness: a fetch result was accepted just now and is pending; its key
\* is in the stored item.
C12_Witness ==
  /\ event.name = "fetch" /\ notification = "promo" /\ ~visible
  /\ Index(effects, Call("setItem", 0)) = 1
  /\ localStorage = <<"{", "promo", ":", "true", "}">>

\* ------------------------------------ the stored item becomes unreadable
\* toast.tsx 64-69: the item no longer parses (its text was cut short by
\* something other than this component); JSON.parse will throw on it
CorruptItem ==
  /\ UNCHANGED mainVars
  /\ faults < MaxFaults /\ faults' = faults + 1
  /\ localStorage # <<>> /\ JSON_parse(localStorage).ok
  /\ localStorage' = SubSeq(localStorage, 1, Len(localStorage) - 1)
  /\ event' = Event("corrupt", <<>>) /\ effects' = <<>>
  /\ UNCHANGED <<notification, visible, timers, allowNotificationRequests,
                 checks, called, requests, acceptCount, reloads>>

NextFault ==
  \/ NextFetch
  \/ CorruptItem

SpecFault == InitToast /\ [][NextFault]_vars

\* the keys the text of the stored item records as true
Recorded(item) ==
  {k \in NotificationKeys :
     \E i \in 1..(Len(item) - 2) :
       item[i] = k /\ item[i + 1] = ":" /\ item[i + 2] = "true"}

\* C13 (SpecFault): no step of the toast controller (a receive, accepted or
\* rejected, a click, a timer, a fetch step) removes a key from the stored
\* item, also when the item it reads does not parse.
C13_SeenSetGrowsMonotonically ==
  [][event'.name # "corrupt" =>
       Recorded(localStorage) \subseteq Recorded(localStorage')]_vars

\* C14 (SpecToast): when the 1 s dismiss timer expires the controller is idle
\* again and the fetch check runs: with notification requests permitted, the
\* call of checkForNotifications made by the timer goes past its guard and is
\* in flight, on its way to the POST to /notification.
C14_DismissalRunsTheFetchCheck ==
  [][event'.name = "timeout:dismiss" =>
       /\ notification' = Null
       /\ allowNotificationRequests => Len(checks') = Len(checks) + 1]_vars

C16_FailedFetchChangesNothing ==
  [][(event'.name = "fetch" /\ event'.arg[2] # "notification") =>
       /\ notification' = notification /\ visible' = visible
       /\ localStorage' = localStorage /\ timers' = timers
       /\ acceptCount' = acceptCount /\ requests' = requests
       /\ Len(checks') = Len(checks) - 1
       /\ effects' = <<>>]_vars

\* C16 witness: the request was rejected and the controller is idle, with
\* nothing stored, no timer armed and no call in flight.
C16_Witness ==
  /\ event.name = "fetch" /\ event.arg[2] = "error" /\ requests = 1
  /\ notification = Null /\ localStorage = <<>> /\ timers = <<>>
  /\ checks = <<>>

\* C17 (SpecToast): the faded-in flag is never true while no notification is
\* held, whatever the order of receives, clicks (repeated, or before the
\* fade-in) and timer expiries; and a timer acts on the notification it was
\* armed for: the dismiss timer clears, and the fade-in timer fades in, the
\* notification that was held when the timer was armed.
C17_TimersKeepTheStateMachine ==
  /\ [](notification = Null => ~visible)
  /\ [][event'.name \in {"timeout:dismiss", "timeout:fadeIn"} =>
          Head(timers).closure = notification]_vars

\* SpecToast with the scheduling the runtime guarantees: an armed 1 s timer
\* expires (setTimeout, toast.tsx 80, 154, 172); receives, clicks and
\* restarts are up to the environment
SpecToastFair ==
  SpecToast /\ WF_vars(FadeInTimer) /\ WF_vars(DismissTimer)

\* C18 (SpecToastFair): the mounted component triggers the fetch check by
\* itself, with no receive and no dismissal needed: sooner or later a call of
\* checkForNotifications is past its guard and in flight.
C18_FetchCheckRunsAfterMount == <>(checks # <<>>)

\* C19 (Spec): per process the update notification is armed at most once, by
\* the window-ready signal the one-time listener of _trackStats hears, and
\* sent at most once, when that 5 s timer expires and so after a window-ready
\* signal; the expiry sends it on 'show-notification' once to every window
\* then open or minimized; no other step sends on that channel, and a later
\* window-ready arms nothing.
C19_UpdateNotificationSentOnce ==
  /\ [](/\ Len(updateTimer) + updateSent <= 1
        /\ updateSent = 1 => readySent # {}
        /\ \A i \in Sends : effects[i].chan = "show-notification" =>
             /\ event.name = "timeout:5000" /\ updateSent = 1
             /\ effects[i].payload.key = "updated-" \o procStats.currentVersion
        /\ event.name = "timeout:5000" =>
             /\ \A w \in DOMAIN windows : ~Destroyed(w) =>
                  Cardinality({i \in Sends : effects[i].win = w
                                 /\ effects[i].chan = "show-notification"}) = 1
             /\ \A i \in Sends : ~Destroyed(effects[i].win))
  /\ [][/\ Len(updateTimer') > Len(updateTimer) =>
             (event'.name = "window-ready" /\ "update" \in Registered
              /\ updateSent = 0)
        /\ updateSent' > updateSent =>
             (event'.name = "timeout:5000" /\ updateTimer # <<>>)
        /\ (event'.name = "window-ready" /\ "update" \notin Registered) =>
             updateTimer' = updateTimer]_vars

\* C19 witness: the timer expired with two windows open, both were sent the
\* notification, and the second window had signalled window-ready after the
\* first without arming anything.
C19_Witness ==
  /\ event.name = "timeout:5000" /\ updateSent = 1 /\ updateTimer = <<>>
  /\ Cardinality(readySent) = 2 /\ Cardinality(Sends) = 2
  /\ \A i \in Sends : effects[i].chan = "show-notification"

\* C20 (Spec): a process that passed the configuration check writes the launch
\* record once, from the record it read just before, and before _launchApp
\* asks for the lock: the record changes only in the step of _trackStats that
\* follows the read, when nothing of the launch sequence has run; once the
\* lock has been asked for, granted or not, the stored record is the one this
\* process wrote: launches one more than it read, currentVersion the running
\* version, lastVersion the currentVersion it read. No later step of the
\* process, its exit included, writes the record again.
C20_StatsWrittenOnceBeforeTheLock ==
  /\ [](launchLog # <<>> =>
          /\ stats = procStats
          /\ stats.launches = oldStats.launches + 1
          /\ stats.currentVersion = appVersion
          /\ stats.lastVersion = oldStats.currentVersion
          /\ stats.lastLaunch = oldStats.currentLaunch)
  /\ [][/\ stats' # stats =>
             /\ pc = "statsUpdate" /\ pc' = "launch" /\ oldStats = stats
             /\ launchLog = <<>> /\ launchLog' = <<>> /\ windows' = windows
             /\ ~dialogShown
        /\ (launchLog = <<>> /\ launchLog' # <<>>) =>
             (stats' = stats /\ procStats.launches = oldStats.launches + 1)]_vars

\* C20 witness: the second start ran 1.1.0 after 1.0.0, was refused the lock
\* and has exited without a window; the record counts two launches and the
\* versions have rotated.
C20_Witness ==
  /\ pc = "exited" /\ ~PLAYWRIGHT /\ launchLog # <<>> /\ ~gotTheLock
  /\ windows = <<>> /\ stats.launches = 2
  /\ stats.currentVersion = "1.1.0" /\ stats.lastVersion = "1.0.0"

====
